---- MODULE Spec2Model ----
(***************************************************************************)
(* The task store of the Tactical Planning System (PlanningContext.jsx):   *)
(* the array of tasks held by PlanningProvider and the mutators that       *)
(* replace it (addTask, updateTask, toggleTaskCompletion, deleteTask,      *)
(* catastrophicWipeOut, linkTask, unlinkTask), together with the           *)
(* Dashboard's CWA button handler, the Realism Point functions the         *)
(* Dashboard applies to the tasks of the day (realismPoint.js,             *)
(* rtCalculations.js), the priority ordering (taskSorting.js), and the two *)
(* stores beside it: the observations (ObservationsContext.jsx) and the    *)
(* entities of the Diamond System (DiamondContext).                        *)
(*                                                                         *)
(* A task is a record; the store is a sequence of tasks in array order.    *)
(* Arrays (subtasks, linksTo, linkedFrom) are sequences. null is Null.     *)
(* Every setTasks(updater) call is one atomic step on the latest store;    *)
(* SpecQueue looks into that step, with React's queue of setTasks calls    *)
(* and the renders that apply them.  createdAt is written once by addTask  *)
(* and read by no mutator; it is left out of the record.  The store starts *)
(* empty, as useState([]) leaves it; the example data loaded on mount      *)
(* (examples/exampleTasks.json) is not among the sources, and appears in   *)
(* SpecQueue only, as an array the mount effect puts in place of the       *)
(* store.                                                                  *)
(***************************************************************************)
EXTENDS Integers, Sequences, FiniteSets, TLC

VARIABLES tasks, nextId, prev, last, calls, clock,
          queued, rendered, initializedRef, observations, entities

vars == <<tasks, nextId, prev, last, calls, clock,
          queued, rendered, initializedRef, observations, entities>>

\* what the calls on the task store leave alone: React's queue of setTasks
\* calls, and the stores of the observations and of the entities
others == <<queued, rendered, initializedRef, observations, entities>>

(***************************************************************************)
(* Bounds of the model.                                                    *)
(***************************************************************************)
\* ids handed out by addTask: 1..MaxTasks
MaxTasks == 3
\* values new Date() can take when a task is completed
MaxDate == 2
\* calls in one behaviour when updateTask is given any field
MaxCalls == 4
\* calls in one behaviour when updateTask is given the documented fields only
MaxDocumentedCalls == 5
\* calls in one behaviour when addTask and updateTask are given raw rt and il
MaxRawCalls == 3
\* calls in one behaviour when updateTask is never called
MaxStructuralCalls == 5
\* the last millisecond Date.now() reaches
MaxClock == 2
\* fractions of a millisecond that Math.random() adds to Date.now(): the
\* values 0 .. RandomSlots - 1 of a slot, and RandomSlots for a fraction so
\* near 1 that the sum rounds to the next millisecond
RandomSlots == 2
\* addTask calls in one behaviour when the id is drawn from the clock
MaxClockCalls == 3
\* observations caught in one behaviour
MaxObservations == 2
\* the last day the clock reaches when it counts days
MaxDay == 3
\* calls on the observations store in one behaviour
MaxObservationCalls == 3
\* entities added in one behaviour
MaxEntities == 2
\* calls on the entities store in one behaviour
MaxDiamondCalls == 3
\* setTasks calls in one behaviour of the queue
MaxQueued == 4
\* tasks in the array handed to sortTasksByPriority
MaxSortTasks == 3
\* tasks in the array handed to the realism point functions
MaxTodayTasks == 2
\* the largest rt, in hours, of a task handed to them
MaxRT == 6
\* the largest available time, in hours, either side of 0
MaxHours == 10

(***************************************************************************)
(* Values.                                                                 *)
(***************************************************************************)
\* null (parentTaskId of a root task, completedAt of an incomplete task)
Null == 0
\* the result of parseFloat / parseInt on text that is no number
NaN == -999
\* IMPORTANCE.MUST
MUST == 1

\* the values of new Date() at a call, as day numbers
Dates == 1..MaxDate

\* what a mutator gives back to its caller: <<>> is undefined, <<v>> is v
Undefined == <<>>

(***************************************************************************)
(* Array helpers of JavaScript used by the mutators.                       *)
(***************************************************************************)
\* array.includes(x)
includes(arr, x) == \E i \in 1..Len(arr) : arr[i] = x

\* array.filter((id) => id !== x)
without(arr, x) == SelectSeq(arr, LAMBDA e : e # x)

\* the set of elements of an array
elems(arr) == {arr[i] : i \in 1..Len(arr)}

\* tasks.find((t) => t.id === taskId): the index of the first match, 0 if none
find(ts, taskId) ==
  IF \E i \in 1..Len(ts) : ts[i].id = taskId
  THEN CHOOSE i \in 1..Len(ts) :
         /\ ts[i].id = taskId
         /\ \A j \in 1..(i - 1) : ts[j].id # taskId
  ELSE 0

\* array.map(f) is written [i \in DOMAIN arr |-> f(arr[i])], and
\* array.filter(keep) is SelectSeq(arr, keep)

(***************************************************************************)
(* Type coercions applied by addTask and updateTask.                       *)
(***************************************************************************)
\* raw values a caller passes as rt, and parseFloat of each
RawRT == {"2", "-1", "abc"}
parseFloat(raw) ==
  CASE raw = "2" -> 2
    [] raw = "-1" -> -1
    [] OTHER -> NaN

\* raw values a caller passes as il, and parseInt of each
RawIL == {"1", "2", "7", "x"}
parseInt(raw) ==
  CASE raw = "1" -> 1
    [] raw = "2" -> 2
    [] raw = "7" -> 7
    [] OTHER -> NaN

\* raw values a caller passes as idl, and new Date(raw) as a day number
InvalidDate == -998
RawIDL == {"2024-01-15", "2024-01-25", "soon"}
newDate(raw) ==
  CASE raw = "2024-01-15" -> 15
    [] raw = "2024-01-25" -> 25
    [] OTHER -> InvalidDate

(***************************************************************************)
(* addTask                                                                 *)
(***************************************************************************)
\* the task object addTask builds from its argument; id is the fresh id
newTaskOf(task, id) ==
  [ id           |-> id,
    title        |-> task.title,
    rt           |-> parseFloat(task.rt),
    idl          |-> newDate(task.idl),
    il           |-> parseInt(task.il),
    parentTaskId |-> IF task.parentTaskId # Null THEN task.parentTaskId ELSE Null,
    subtasks     |-> <<>>,
    linksTo      |-> <<>>,
    linkedFrom   |-> <<>>,
    completed    |-> FALSE,
    completedAt  |-> Null ]

\* the updater addTask hands to setTasks
addTask(ts, task, id) ==
  LET newTask == newTaskOf(task, id)
      updated == Append(ts, newTask)
      addToParent(t) ==
        IF t.id = task.parentTaskId
        THEN [t EXCEPT !.subtasks = Append(t.subtasks, newTask.id)]
        ELSE t
  IN IF task.parentTaskId # Null
     THEN [k \in DOMAIN updated |-> addToParent(updated[k])]
     ELSE updated

(***************************************************************************)
(* updateTask                                                              *)
(***************************************************************************)
\* {...task, ...updates} followed by the three coerced fields; updates is a
\* record carrying any subset of the task's fields
mergeTask(task, updates) ==
  LET has(k) == k \in DOMAIN updates
  IN [ id           |-> IF has("id") THEN updates.id ELSE task.id,
       title        |-> IF has("title") THEN updates.title ELSE task.title,
       rt           |-> IF has("rt") THEN parseFloat(updates.rt) ELSE task.rt,
       idl          |-> IF has("idl") THEN newDate(updates.idl) ELSE task.idl,
       il           |-> IF has("il") THEN parseInt(updates.il) ELSE task.il,
       parentTaskId |-> IF has("parentTaskId") THEN updates.parentTaskId
                        ELSE task.parentTaskId,
       subtasks     |-> IF has("subtasks") THEN updates.subtasks ELSE task.subtasks,
       linksTo      |-> IF has("linksTo") THEN updates.linksTo ELSE task.linksTo,
       linkedFrom   |-> IF has("linkedFrom") THEN updates.linkedFrom
                        ELSE task.linkedFrom,
       completed    |-> IF has("completed") THEN updates.completed ELSE task.completed,
       completedAt  |-> IF has("completedAt") THEN updates.completedAt
                        ELSE task.completedAt ]

updateTask(ts, taskId, updates) ==
  LET patch(task) == IF task.id = taskId THEN mergeTask(task, updates) ELSE task
  IN [k \in DOMAIN ts |-> patch(ts[k])]

(***************************************************************************)
(* toggleTaskCompletion                                                    *)
(***************************************************************************)
\* getDescendantIds without the recursive call: the direct children only
getDirectChildIds(parentId, allTasks) ==
  LET directChildren == SelectSeq(allTasks, LAMBDA t : t.parentTaskId = parentId)
  IN [k \in DOMAIN directChildren |-> directChildren[k].id]

\* every id reached from parentId by following parentTaskId downwards
RECURSIVE getDescendantIds(_, _)
getDescendantIds(parentId, allTasks) ==
  LET directChildren == SelectSeq(allTasks, LAMBDA t : t.parentTaskId = parentId)
      RECURSIVE each(_)
      each(children) ==
        IF children = <<>> THEN <<>>
        ELSE <<Head(children).id>>
               \o getDescendantIds(Head(children).id, allTasks)
               \o each(Tail(children))
  IN each(directChildren)

\* the ids of the tasks whose parentTaskId is one of the ids in S
childrenOf(S, allTasks) ==
  {allTasks[i].id : i \in {j \in 1..Len(allTasks) : allTasks[j].parentTaskId \in S}}

\* the ids getDescendantIds(parentId, allTasks) visits
RECURSIVE visited(_, _)
visited(S, allTasks) ==
  LET more == S \cup childrenOf(S, allTasks)
  IN IF more = S THEN S ELSE visited(more, allTasks)

\* getDescendantIds(parentId, allTasks) never returns: the recursion meets a
\* task that is its own descendant, and ends in a RangeError (call stack)
overflows(parentId, allTasks) ==
  \E x \in visited(childrenOf({parentId}, allTasks), allTasks) :
    x \in visited(childrenOf({x}, allTasks), allTasks)

\* the updater of toggleTaskCompletion throws instead of returning
toggleThrows(ts, taskId) ==
  LET i == find(ts, taskId) IN
  /\ i # 0
  /\ ~ts[i].completed
  /\ \E j \in 1..Len(ts) : ts[j].id # taskId
  /\ overflows(taskId, ts)

\* toggleTaskCompletion with the cascade applied in both directions
toggleCascadingBothWays(ts, taskId, now) ==
  LET i == find(ts, taskId) IN
  IF i = 0 THEN ts
  ELSE
    LET newCompleted == ~ts[i].completed
        completionDate == IF newCompleted THEN now ELSE Null
        toggle(t) ==
          IF t.id = taskId \/ includes(getDescendantIds(taskId, ts), t.id)
          THEN [t EXCEPT !.completed = newCompleted, !.completedAt = completionDate]
          ELSE t
    IN [k \in DOMAIN ts |-> toggle(ts[k])]

\* toggleTaskCompletion without the cascade: the task alone is toggled
toggleTaskAlone(ts, taskId, now) ==
  LET i == find(ts, taskId) IN
  IF i = 0 THEN ts
  ELSE [ts EXCEPT ![i].completed = ~ts[i].completed,
                  ![i].completedAt = IF ts[i].completed THEN Null ELSE now]

\* toggleTaskCompletion with completedAt left as it was on un-completion
toggleKeepingDate(ts, taskId, now) ==
  LET i == find(ts, taskId) IN
  IF i = 0 THEN ts
  ELSE
    LET newCompleted == ~ts[i].completed
        toggle(t) ==
          IF t.id = taskId
          THEN [t EXCEPT !.completed = newCompleted,
                         !.completedAt = IF newCompleted THEN now ELSE t.completedAt]
          ELSE IF newCompleted /\ includes(getDescendantIds(taskId, ts), t.id)
          THEN [t EXCEPT !.completed = TRUE, !.completedAt = now]
          ELSE t
    IN [k \in DOMAIN ts |-> toggle(ts[k])]

\* completionDate is the value of new Date() at the call
toggleTaskCompletion(ts, taskId, now) ==
  LET i == find(ts, taskId) IN
  IF i = 0 THEN ts
  ELSE
    LET task == ts[i]
        newCompleted == ~task.completed
        completionDate == IF newCompleted THEN now ELSE Null
        toggle(t) ==
          IF t.id = taskId
          THEN [t EXCEPT !.completed = newCompleted, !.completedAt = completionDate]
          ELSE IF newCompleted /\ includes(getDescendantIds(taskId, ts), t.id)
          THEN [t EXCEPT !.completed = TRUE, !.completedAt = completionDate]
          ELSE t
    IN [k \in DOMAIN ts |-> toggle(ts[k])]

(***************************************************************************)
(* deleteTask                                                              *)
(***************************************************************************)
\* the first map of deleteTask: the parent of the deleted task loses it from
\* subtasks; every other task loses it from linksTo and linkedFrom
detachTask(ts, taskToDelete) ==
  LET detach(task) ==
        IF task.id = taskToDelete.parentTaskId
        THEN [task EXCEPT !.subtasks = without(task.subtasks, taskToDelete.id)]
        ELSE [task EXCEPT !.linksTo = without(task.linksTo, taskToDelete.id),
                          !.linkedFrom = without(task.linkedFrom, taskToDelete.id)]
  IN [k \in DOMAIN ts |-> detach(ts[k])]

\* deleteSubtasks without the recursive call: the direct children only
deleteDirectSubtasks(updated, parentId) ==
  SelectSeq(updated, LAMBDA t : t.parentTaskId # parentId)

\* deleteSubtasks(parentId) acting on the local array `updated`; the value is
\* `updated` after the call
RECURSIVE deleteSubtasks(_, _)
deleteSubtasks(updated, parentId) ==
  LET subtasks == SelectSeq(updated, LAMBDA t : t.parentTaskId = parentId)
      RECURSIVE forEach(_, _)
      forEach(upd, rest) ==
        IF rest = <<>> THEN upd
        ELSE LET subtask == Head(rest)
                 removed == SelectSeq(upd, LAMBDA t : t.id # subtask.id)
             IN forEach(deleteSubtasks(removed, subtask.id), Tail(rest))
  IN forEach(updated, subtasks)

\* deleteTask removing by position: with no task of the id the position is
\* -1, and splice(-1, 1) takes the last task out
deleteTaskBySplice(ts, taskId) ==
  LET i == find(ts, taskId) IN
  IF i = 0 THEN SubSeq(ts, 1, Len(ts) - 1)
  ELSE LET updated == deleteSubtasks(detachTask(ts, ts[i]), taskId)
       IN SelectSeq(updated, LAMBDA task : task.id # taskId)

deleteTask(ts, taskId) ==
  LET i == find(ts, taskId) IN
  IF i = 0 THEN ts
  ELSE LET updated == deleteSubtasks(detachTask(ts, ts[i]), taskId)
       IN SelectSeq(updated, LAMBDA task : task.id # taskId)

(***************************************************************************)
(* catastrophicWipeOut                                                     *)
(***************************************************************************)
\* the wipe with the threshold one level off
catastrophicWipeOutBelowHigh(ts) == SelectSeq(ts, LAMBDA task : task.il <= MUST + 1)

\* the wipe dropping the completed tasks as well
catastrophicWipeOutPending(ts) ==
  SelectSeq(ts, LAMBDA task : task.il = MUST /\ ~task.completed)

catastrophicWipeOut(ts) == SelectSeq(ts, LAMBDA task : task.il = MUST)

(***************************************************************************)
(* linkTask / unlinkTask                                                   *)
(***************************************************************************)
linkTask(ts, fromTaskId, toTaskId) ==
  LET link(task) ==
        IF task.id = fromTaskId /\ ~includes(task.linksTo, toTaskId)
        THEN [task EXCEPT !.linksTo = Append(task.linksTo, toTaskId)]
        ELSE IF task.id = toTaskId /\ ~includes(task.linkedFrom, fromTaskId)
        THEN [task EXCEPT !.linkedFrom = Append(task.linkedFrom, fromTaskId)]
        ELSE task
  IN IF fromTaskId = toTaskId THEN ts ELSE [k \in DOMAIN ts |-> link(ts[k])]

unlinkTask(ts, fromTaskId, toTaskId) ==
  LET unlink(task) ==
        IF task.id = fromTaskId
        THEN [task EXCEPT !.linksTo = without(task.linksTo, toTaskId)]
        ELSE IF task.id = toTaskId
        THEN [task EXCEPT !.linkedFrom = without(task.linkedFrom, fromTaskId)]
        ELSE task
  IN [k \in DOMAIN ts |-> unlink(ts[k])]

(***************************************************************************)
(* Read-side queries.                                                      *)
(***************************************************************************)
\* the ids in the store
idsOf(ts) == {ts[i].id : i \in 1..Len(ts)}

\* getTaskById: the task with this id (the id must be stored)
getTaskById(ts, taskId) == ts[find(ts, taskId)]

\* getRootTasks: the tasks whose parentTaskId is falsy
getRootTasks(ts) == SelectSeq(ts, LAMBDA task : task.parentTaskId = Null)

\* getSubtasks: the tasks whose parentTaskId is taskId
getSubtasks(ts, taskId) == SelectSeq(ts, LAMBDA task : task.parentTaskId = taskId)

\* buildTree: the task with a children field holding the trees of its subtasks
RECURSIVE buildTree(_, _)
buildTree(ts, task) ==
  LET subtasks == getSubtasks(ts, task.id)
      children == [k \in DOMAIN subtasks |-> buildTree(ts, subtasks[k])]
  IN [f \in DOMAIN task \cup {"children"} |->
        IF f = "children" THEN children ELSE task[f]]

\* getTaskTree: the trees of the root tasks
getTaskTree(ts) ==
  LET rootTasks == getRootTasks(ts)
  IN [k \in DOMAIN rootTasks |-> buildTree(ts, rootTasks[k])]

(***************************************************************************)
(* The state: the tasks array, the next fresh id, and a record of the last *)
(* call (the store before it, its name, arguments and return value).       *)
(* clock is Date.now() at the latest call that read it.                    *)
(***************************************************************************)
\* a call that returned: its name, its arguments, what it returned
Returned(op, a, b, ret) == [op |-> op, a |-> a, b |-> b, ret |-> ret, threw |-> FALSE]

NoCall == Returned("none", Null, Null, Undefined)

\* no setTasks call is queued, the mount effect has not run, and the stores of
\* the observations and of the entities are empty
NothingElse ==
  /\ queued = <<>>
  /\ rendered = 0
  /\ initializedRef = FALSE
  /\ observations = <<>>
  /\ entities = <<>>

Init ==
  /\ tasks = <<>>
  /\ nextId = 1
  /\ prev = <<>>
  /\ last = NoCall
  /\ calls = 0
  /\ clock = 1
  /\ NothingElse

\* ids a caller can hold: every id handed out so far, stored or deleted
Issued == 1..(nextId - 1)

\* the arguments callers pass to addTask in the store's own specification
CoreTitles == {"A"}
CoreRT == {"2"}
CoreIDL == {"2024-01-15"}
CoreIL == {"1", "2"}

AddTask ==
  /\ nextId <= MaxTasks
  /\ \E title \in CoreTitles, rt \in CoreRT, idl \in CoreIDL, il \in CoreIL,
        parent \in Issued \cup {Null} :
       LET task == [title |-> title, rt |-> rt, idl |-> idl, il |-> il,
                    parentTaskId |-> parent]
       IN /\ tasks' = addTask(tasks, task, nextId)
          /\ last' = Returned("addTask", nextId, parent, <<newTaskOf(task, nextId)>>)
  /\ nextId' = nextId + 1
  /\ prev' = tasks

\* the objects callers pass as updates: one field each (an object with several
\* fields acts as the calls for its fields in turn).  The documented fields:
DocumentedUpdates == [il : CoreIL] \cup [title : {"B"}]

\* updateTask spreads the whole object, so any field of a task can be carried
Lists == {<<>>} \cup {<<x>> : x \in Issued}
AnyUpdates ==
  DocumentedUpdates
    \cup [parentTaskId : Issued \cup {Null}] \cup [subtasks : Lists]
    \cup [linksTo : Lists] \cup [linkedFrom : Lists]
    \cup [completed : BOOLEAN] \cup [completedAt : Dates \cup {Null}]
    \cup [id : Issued]

UpdateTaskWith(allowed) ==
  /\ \E taskId \in Issued, updates \in allowed :
       /\ tasks' = updateTask(tasks, taskId, updates)
       /\ last' = Returned("updateTask", taskId, Null, Undefined)
  /\ prev' = tasks
  /\ UNCHANGED nextId

UpdateTask == UpdateTaskWith(AnyUpdates)

UpdateTaskDocumented == UpdateTaskWith(DocumentedUpdates)

\* a throwing updater leaves the state as it was and the error unmounts the
\* provider
ToggleTaskCompletion ==
  /\ \E taskId \in Issued, now \in Dates :
       IF toggleThrows(tasks, taskId)
       THEN /\ tasks' = tasks
            /\ last' = [op |-> "toggleTaskCompletion", a |-> taskId, b |-> now,
                        ret |-> Undefined, threw |-> TRUE]
       ELSE /\ tasks' = toggleTaskCompletion(tasks, taskId, now)
            /\ last' = Returned("toggleTaskCompletion", taskId, now, Undefined)
  /\ prev' = tasks
  /\ UNCHANGED nextId

DeleteTask ==
  /\ \E taskId \in Issued :
       /\ tasks' = deleteTask(tasks, taskId)
       /\ last' = Returned("deleteTask", taskId, Null, Undefined)
  /\ prev' = tasks
  /\ UNCHANGED nextId

CatastrophicWipeOut ==
  /\ nextId > 1
  /\ tasks' = catastrophicWipeOut(tasks)
  /\ last' = Returned("catastrophicWipeOut", Null, Null, Undefined)
  /\ prev' = tasks
  /\ UNCHANGED nextId

LinkTask ==
  /\ \E fromTaskId \in Issued, toTaskId \in Issued :
       /\ tasks' = linkTask(tasks, fromTaskId, toTaskId)
       /\ last' = Returned("linkTask", fromTaskId, toTaskId, Undefined)
  /\ prev' = tasks
  /\ UNCHANGED nextId

UnlinkTask ==
  /\ \E fromTaskId \in Issued, toTaskId \in Issued :
       /\ tasks' = unlinkTask(tasks, fromTaskId, toTaskId)
       /\ last' = Returned("unlinkTask", fromTaskId, toTaskId, Undefined)
  /\ prev' = tasks
  /\ UNCHANGED nextId

\* one more call, within the bound on the length of a behaviour; no call
\* reaches the store once an updater has thrown
Call(mutator, maxCalls) ==
  /\ calls < maxCalls
  /\ ~last.threw
  /\ mutator
  /\ calls' = calls + 1
  /\ UNCHANGED <<clock, others>>

\* the onClick handler of the Dashboard's CWA button: it counts the tasks to
\* remove, refuses when there are none, asks the user, wipes, and reports the
\* count (ret is the count it reports, a is 1 when the wipe ran)
DashboardCWA ==
  /\ nextId > 1
  /\ LET nonCriticalTasks == SelectSeq(tasks, LAMBDA task : task.il # MUST)
     IN \E confirm \in BOOLEAN :
          IF Len(nonCriticalTasks) # 0 /\ confirm
          THEN /\ tasks' = catastrophicWipeOut(tasks)
               /\ last' = Returned("dashboardCWA", 1, Null, <<Len(nonCriticalTasks)>>)
          ELSE /\ tasks' = tasks
               /\ last' = Returned("dashboardCWA", 0, Null, Undefined)
  /\ prev' = tasks
  /\ UNCHANGED nextId

Next ==
  \/ Call(AddTask, MaxCalls)
  \/ Call(UpdateTask, MaxCalls)
  \/ Call(ToggleTaskCompletion, MaxCalls)
  \/ Call(DeleteTask, MaxCalls)
  \/ Call(CatastrophicWipeOut, MaxCalls)
  \/ Call(DashboardCWA, MaxCalls)
  \/ Call(LinkTask, MaxCalls)
  \/ Call(UnlinkTask, MaxCalls)

\* every call a collaborator can make on the store
Spec == Init /\ [][Next]_vars

NextDocumented ==
  \/ Call(AddTask, MaxDocumentedCalls)
  \/ Call(UpdateTaskDocumented, MaxDocumentedCalls)
  \/ Call(ToggleTaskCompletion, MaxDocumentedCalls)
  \/ Call(DeleteTask, MaxDocumentedCalls)
  \/ Call(CatastrophicWipeOut, MaxDocumentedCalls)
  \/ Call(DashboardCWA, MaxDocumentedCalls)
  \/ Call(LinkTask, MaxDocumentedCalls)
  \/ Call(UnlinkTask, MaxDocumentedCalls)

\* the same calls, updateTask being given the documented fields only
SpecDocumented == Init /\ [][NextDocumented]_vars

NextWithoutUpdate ==
  \/ Call(AddTask, MaxStructuralCalls)
  \/ Call(ToggleTaskCompletion, MaxStructuralCalls)
  \/ Call(DeleteTask, MaxStructuralCalls)
  \/ Call(CatastrophicWipeOut, MaxStructuralCalls)
  \/ Call(LinkTask, MaxStructuralCalls)
  \/ Call(UnlinkTask, MaxStructuralCalls)

\* every mutator of the store but updateTask
SpecWithoutUpdate == Init /\ [][NextWithoutUpdate]_vars

(***************************************************************************)
(* The store called with raw field values: addTask and updateTask are      *)
(* given rt and il as the caller has them (a number in range, a number out *)
(* of range, text that is no number) and coerce them.                      *)
(***************************************************************************)
\* the last call keeps the whole argument object in b
AddTaskRaw ==
  /\ nextId <= MaxTasks
  /\ \E title \in CoreTitles, rt \in RawRT, idl \in CoreIDL, il \in RawIL,
        parent \in Issued \cup {Null} :
       LET task == [title |-> title, rt |-> rt, idl |-> idl, il |-> il,
                    parentTaskId |-> parent]
       IN /\ tasks' = addTask(tasks, task, nextId)
          /\ last' = Returned("addTask", nextId, task, <<newTaskOf(task, nextId)>>)
  /\ nextId' = nextId + 1
  /\ prev' = tasks

\* the objects callers pass as updates when they carry raw values
RawUpdates == [rt : RawRT] \cup [il : RawIL] \cup [idl : RawIDL]

UpdateTaskRaw ==
  /\ \E taskId \in Issued, updates \in RawUpdates :
       /\ tasks' = updateTask(tasks, taskId, updates)
       /\ last' = Returned("updateTask", taskId, updates, Undefined)
  /\ prev' = tasks
  /\ UNCHANGED nextId

NextRaw ==
  \/ Call(AddTaskRaw, MaxRawCalls)
  \/ Call(UpdateTaskRaw, MaxRawCalls)
  \/ Call(ToggleTaskCompletion, MaxRawCalls)
  \/ Call(DeleteTask, MaxRawCalls)
  \/ Call(LinkTask, MaxRawCalls)
  \/ Call(UnlinkTask, MaxRawCalls)

\* the calls of a collaborator that passes rt and il unvalidated
SpecRaw == Init /\ [][NextRaw]_vars

(***************************************************************************)
(* addTask with the id as the code draws it.  In the specifications above  *)
(* every addTask gets an id no call got before (nextId); here the id is    *)
(* Date.now() + Math.random(): the clock does not go back, two calls can   *)
(* fall in the same millisecond, and Math.random() is any fraction.        *)
(***************************************************************************)
\* Date.now() + Math.random(), in units of one fraction slot
generateId(now, random) == now * RandomSlots + random

AddTaskAt ==
  /\ calls < MaxClockCalls
  /\ \E now \in clock..MaxClock, random \in 0..RandomSlots,
        title \in CoreTitles, rt \in CoreRT, idl \in CoreIDL, il \in CoreIL,
        parent \in idsOf(tasks) \cup {Null} :
       LET id == generateId(now, random)
           task == [title |-> title, rt |-> rt, idl |-> idl, il |-> il,
                    parentTaskId |-> parent]
       IN /\ tasks' = addTask(tasks, task, id)
          /\ last' = Returned("addTask", id, parent, <<newTaskOf(task, id)>>)
          /\ clock' = now
  /\ prev' = tasks
  /\ calls' = calls + 1
  /\ UNCHANGED <<nextId, others>>

NextClock == AddTaskAt

\* addTask called again and again, as fast as the caller likes
SpecClock == Init /\ [][NextClock]_vars

(***************************************************************************)
(* The Realism Point (realismPoint.js, rtCalculations.js).  rt and the     *)
(* available time are whole hours.  A quotient is kept as the pair of its  *)
(* numerator and its denominator, the denominator positive; sums of whole  *)
(* numbers are exact in doubles, and the double of a quotient of whole     *)
(* numbers compares with the doubles 0.8 and 1.0 as the quotient compares  *)
(* with 4/5 and 1 (rounding is monotone and 0.8 is the double of 4/5).     *)
(***************************************************************************)
\* n / d for d other than 0
divide(n, d) ==
  IF d > 0 THEN [num |-> n, den |-> d] ELSE [num |-> 0 - n, den |-> 0 - d]

\* the number 0 as a quotient
zero == [num |-> 0, den |-> 1]

\* x < y
lessThan(x, y) == x.num * y.den < y.num * x.den

\* SAFE: 0.8, RISKY: 1.0, OVERLOAD: 1.0
RP_LIMITS ==
  [SAFE |-> divide(4, 5), RISKY |-> divide(1, 1), OVERLOAD |-> divide(1, 1)]

\* task.rt || 0: undefined, NaN and 0 are falsy
rtOrZero(task) ==
  IF "rt" \in DOMAIN task /\ task.rt # NaN /\ task.rt # 0 THEN task.rt ELSE 0

\* tasks.reduce((sum, task) => sum + (task.rt || 0), 0), and 0 for no tasks
RECURSIVE calculateTotalRT(_)
calculateTotalRT(ts) ==
  IF Len(ts) = 0 THEN 0
  ELSE calculateTotalRT(SubSeq(ts, 1, Len(ts) - 1)) + rtOrZero(ts[Len(ts)])

\* calculateRealismPoint refusing only an available time that is falsy
calculateRealismPointOfNonZero(ts, availableTime) ==
  IF availableTime = NaN \/ availableTime = 0
  THEN zero
  ELSE divide(calculateTotalRT(ts), availableTime)

\* !availableTime || availableTime <= 0 gives 0
calculateRealismPoint(ts, availableTime) ==
  IF (availableTime = NaN \/ availableTime = 0) \/ availableTime <= 0
  THEN zero
  ELSE LET totalRT == calculateTotalRT(ts)
       IN divide(totalRT, availableTime)

\* getRPStatus with the Safe limit included in the Safe zone
getRPStatusUpToLimit(rp) ==
  IF ~lessThan(RP_LIMITS.SAFE, rp)
  THEN [label |-> "Safe Zone", status |-> "Safe"]
  ELSE IF lessThan(rp, RP_LIMITS.RISKY)
  THEN [label |-> "Risky Zone", status |-> "Risky"]
  ELSE [label |-> "Overload", status |-> "Overload"]

\* the object returned for the zone of rp; of its fields label and status are
\* kept, the others are the emoji and the style classes of the same branch
getRPStatus(rp) ==
  IF lessThan(rp, RP_LIMITS.SAFE)
  THEN [label |-> "Safe Zone", status |-> "Safe"]
  ELSE IF lessThan(rp, RP_LIMITS.RISKY)
  THEN [label |-> "Risky Zone", status |-> "Risky"]
  ELSE [label |-> "Overload", status |-> "Overload"]

calculateRPStats(ts, availableTime) ==
  LET rp == calculateRealismPoint(ts, availableTime)
      status == getRPStatus(rp)
      totalRT == calculateTotalRT(ts)
  IN [rp |-> rp, totalRT |-> totalRT, availableTime |-> availableTime,
      label |-> status.label, status |-> status.status]

\* the rt of a task: a number of hours, one below zero included, or NaN
RTValues == {NaN} \cup (-1 .. MaxRT)

\* the tasks of a day: with an rt, or with none
DayTasks == {[title |-> "A"]} \cup {[title |-> "A", rt |-> rt] : rt \in RTValues}

\* the arrays handed to the functions
TodayTasks == UNION {[1..n -> DayTasks] : n \in 0..MaxTodayTasks}

\* the available time: what parseFloat gives for the input field, NaN included
Hours == {NaN} \cup ((0 - MaxHours) .. MaxHours)

\* realism points: the quotients of an rt total by a positive available time
RPValues == {divide(n, d) : n \in -1 .. (2 * MaxRT), d \in 1..MaxHours}

\* an array of tasks is given; nothing has been computed on it
InitRP ==
  /\ tasks \in TodayTasks
  /\ nextId = 1
  /\ prev = <<>>
  /\ last = NoCall
  /\ calls = 0
  /\ clock = 1
  /\ NothingElse

CalculateRealismPoint ==
  /\ last = NoCall
  /\ \E availableTime \in Hours :
       last' = Returned("calculateRealismPoint", availableTime, Null,
                        <<calculateRealismPoint(tasks, availableTime)>>)
  /\ UNCHANGED <<tasks, nextId, prev, calls, clock, others>>

GetRPStatus ==
  /\ last = NoCall
  /\ \E rp \in RPValues :
       last' = Returned("getRPStatus", rp, Null, <<getRPStatus(rp)>>)
  /\ UNCHANGED <<tasks, nextId, prev, calls, clock, others>>

CalculateRPStats ==
  /\ last = NoCall
  /\ \E availableTime \in Hours :
       last' = Returned("calculateRPStats", availableTime, Null,
                        <<calculateRPStats(tasks, availableTime)>>)
  /\ UNCHANGED <<tasks, nextId, prev, calls, clock, others>>

NextRP ==
  \/ CalculateRealismPoint
  \/ GetRPStatus
  \/ CalculateRPStats

\* one of the functions applied to the array given
SpecRP == InitRP /\ [][NextRP]_vars

(***************************************************************************)
(* Priority ordering: sortTasksByPriority, a pure function of the array it *)
(* is given.  A date is its time value, the epoch being 0.                 *)
(***************************************************************************)
\* a !== b on numbers: NaN differs from everything, itself included
strictNotEqual(a, b) == a = NaN \/ b = NaN \/ a # b

\* x || 0 on a number: 0 for NaN and for 0
orZero(x) == IF x = NaN THEN 0 ELSE x

\* new Date(idl || 0): the epoch when idl is missing, idl itself otherwise
\* (an Invalid Date is an object, so it is truthy, and copies as invalid)
dateOrEpoch(idl) == IF idl = Null THEN 0 ELSE idl

\* dateA - dateB: NaN when either date is invalid
dateMinus(dateA, dateB) ==
  IF dateA = InvalidDate \/ dateB = InvalidDate THEN NaN ELSE dateA - dateB

\* the comparator handed to sort
comparePriority(a, b) ==
  IF strictNotEqual(a.il, b.il)
  THEN orZero(a.il) - orZero(b.il)
  ELSE dateMinus(dateOrEpoch(a.idl), dateOrEpoch(b.idl))

\* what Array.prototype.sort makes of the comparator's result: NaN counts as 0
sortCompare(a, b) ==
  LET v == comparePriority(a, b) IN IF v = NaN THEN 0 ELSE v

\* the comparator is consistent on the elements of arr: it orders them as a
\* strict weak order does
consistentComparator(arr) ==
  LET E == 1..Len(arr)
      c(i, j) == sortCompare(arr[i], arr[j])
  IN /\ \A i \in E : c(i, i) = 0
     /\ \A i, j \in E : (c(i, j) < 0) <=> (c(j, i) > 0)
     /\ \A i, j, k \in E :
          /\ (c(i, j) = 0 /\ c(j, k) = 0) => c(i, k) = 0
          /\ (c(i, j) < 0 /\ c(j, k) < 0) => c(i, k) < 0
          /\ (c(i, j) > 0 /\ c(j, k) > 0) => c(i, k) > 0

\* the orders of the positions 1..n
orderings(n) ==
  {p \in [1..n -> 1..n] : \A i, j \in 1..n : p[i] = p[j] => i = j}

\* the arrays [...arr].sort(comparator) can return: the stable sorted order
\* when the comparator is consistent, and an order of the implementation's
\* choosing when it is not
sortedCopies(arr) ==
  LET n == Len(arr)
      stable(p) ==
        \A i, j \in 1..n :
          i < j => \/ sortCompare(arr[p[i]], arr[p[j]]) < 0
                   \/ /\ sortCompare(arr[p[i]], arr[p[j]]) = 0
                      /\ p[i] < p[j]
      orders == IF consistentComparator(arr)
                THEN {p \in orderings(n) : stable(p)}
                ELSE orderings(n)
  IN {[k \in 1..n |-> arr[p[k]]] : p \in orders}

\* the il values a stored task can hold: parseInt of what addTask was given
SortIL == {1, 2, NaN}

\* the idl values: missing, a date before the epoch, dates after it, and the
\* Invalid Date that new Date makes of a string it cannot parse
SortIDL == {Null, -1, 1, 2, InvalidDate}

\* an array handed to sortTasksByPriority: the tasks with the keys of keys,
\* id being the position in the input
sortInput(keys) ==
  [k \in DOMAIN keys |-> [id |-> k, il |-> keys[k].il, idl |-> keys[k].idl]]

InitSort ==
  /\ \E n \in 0..MaxSortTasks :
       \E keys \in [1..n -> [il : SortIL, idl : SortIDL]] : tasks = sortInput(keys)
  /\ nextId = 1
  /\ prev = <<>>
  /\ last = NoCall
  /\ calls = 0
  /\ clock = 1
  /\ NothingElse

\* sortTasksByPriority(tasks): the argument is an array, so the guard of the
\* first line is passed; the copy is sorted, tasks is left as it is
SortTasksByPriority ==
  /\ last = NoCall
  /\ \E sorted \in sortedCopies(tasks) :
       last' = Returned("sortTasksByPriority", Null, Null, <<sorted>>)
  /\ prev' = tasks
  /\ UNCHANGED <<tasks, nextId, calls, clock, others>>

NextSort == SortTasksByPriority

\* sortTasksByPriority applied to every array of at most MaxSortTasks tasks
SpecSort == InitSort /\ [][NextSort]_vars

(***************************************************************************)
(* The observations store (ObservationsContext.jsx).  An observation is    *)
(* caught with status 'buffer' and is to wait OBSERVATION_BUFFER_DAYS      *)
(* before it is analyzed or converted to a task.  In this specification    *)
(* clock counts days, and the observations are caught at different         *)
(* milliseconds, so that their ids (Date.now()) differ: nextId stands for  *)
(* them.  A lessonIdentified of null is written "", which is falsy too.    *)
(***************************************************************************)
OBSERVATION_BUFFER_DAYS == 2

\* the object addObservation builds; now is new Date() at the call
newObservation(id, content, now) ==
  [ id               |-> id,
    content          |-> content,
    createdAt        |-> now,
    status           |-> "buffer",
    tags             |-> <<>>,
    lessonIdentified |-> "",
    ep               |-> Null,
    convertedToTask  |-> FALSE,
    taskId           |-> Null ]

\* the updater of addObservation
addObservation(obs, id, content, now) == Append(obs, newObservation(id, content, now))

\* isReadyForAnalysis: the days since createdAt are at least the buffer
isReadyForAnalysis(observation, now) ==
  LET daysDiff == now - observation.createdAt
  IN daysDiff >= OBSERVATION_BUFFER_DAYS

\* the updater of analyzeObservation; a field analysis does not carry is
\* undefined
analyzeObservation(obs, observationId, analysis) ==
  LET analyze(o) ==
        IF o.id = observationId
        THEN [o EXCEPT
                !.status = "analyzed",
                !.tags = IF "tags" \in DOMAIN analysis THEN analysis.tags ELSE o.tags,
                !.lessonIdentified =
                   IF "lessonIdentified" \in DOMAIN analysis /\ analysis.lessonIdentified # ""
                   THEN analysis.lessonIdentified ELSE o.lessonIdentified,
                !.ep = IF "ep" \in DOMAIN analysis THEN analysis.ep ELSE o.ep]
        ELSE o
  IN [k \in DOMAIN obs |-> analyze(obs[k])]

\* the updater of convertToTask
convertToTask(obs, observationId, taskId) ==
  LET convert(o) ==
        IF o.id = observationId
        THEN [o EXCEPT !.status = "analyzed", !.convertedToTask = TRUE,
                       !.taskId = taskId]
        ELSE o
  IN [k \in DOMAIN obs |-> convert(obs[k])]

\* the updater of deleteObservation: the observation is kept, marked deleted
deleteObservation(obs, observationId) ==
  [k \in DOMAIN obs |->
     IF obs[k].id = observationId THEN [obs[k] EXCEPT !.status = "deleted"] ELSE obs[k]]

\* the updater of permanentlyDelete
permanentlyDelete(obs, observationId) == SelectSeq(obs, LAMBDA o : o.id # observationId)

\* the analyses a caller hands over: tags, lesson and ep, or only an empty
\* lesson
Analyses ==
  { [tags |-> <<"t">>, lessonIdentified |-> "li", ep |-> 50],
    [lessonIdentified |-> ""] }

\* prev is the observations array before the call; b is new Date() at it
AddObservation ==
  /\ nextId <= MaxObservations
  /\ observations' = addObservation(observations, nextId, "c", clock)
  /\ last' = Returned("addObservation", nextId, clock,
                      <<newObservation(nextId, "c", clock)>>)
  /\ nextId' = nextId + 1

AnalyzeObservation ==
  /\ \E observationId \in Issued, analysis \in Analyses :
       /\ observations' = analyzeObservation(observations, observationId, analysis)
       /\ last' = Returned("analyzeObservation", observationId, clock, Undefined)
  /\ UNCHANGED nextId

ConvertToTask ==
  /\ \E observationId \in Issued, taskId \in 1..MaxTasks :
       /\ observations' = convertToTask(observations, observationId, taskId)
       /\ last' = Returned("convertToTask", observationId, clock, Undefined)
  /\ UNCHANGED nextId

DeleteObservation ==
  /\ \E observationId \in Issued :
       /\ observations' = deleteObservation(observations, observationId)
       /\ last' = Returned("deleteObservation", observationId, clock, Undefined)
  /\ UNCHANGED nextId

PermanentlyDelete ==
  /\ \E observationId \in Issued :
       /\ observations' = permanentlyDelete(observations, observationId)
       /\ last' = Returned("permanentlyDelete", observationId, clock, Undefined)
  /\ UNCHANGED nextId

\* one call on the observations store
CallObservations(mutator) ==
  /\ calls < MaxObservationCalls
  /\ mutator
  /\ prev' = observations
  /\ calls' = calls + 1
  /\ UNCHANGED <<clock, tasks, queued, rendered, initializedRef, entities>>

\* a day passes
DayPasses ==
  /\ clock < MaxDay
  /\ clock' = clock + 1
  /\ UNCHANGED <<tasks, nextId, prev, last, calls, others>>

NextObservations ==
  \/ CallObservations(AddObservation)
  \/ CallObservations(AnalyzeObservation)
  \/ CallObservations(ConvertToTask)
  \/ CallObservations(DeleteObservation)
  \/ CallObservations(PermanentlyDelete)
  \/ DayPasses

\* every call a collaborator can make on the observations store, on any day
SpecObservations == Init /\ [][NextObservations]_vars

(***************************************************************************)
(* The entities store of the Diamond System (DiamondContext).  An entity   *)
(* has an EP score and a level; name, type, notes and the two dates are    *)
(* read by no level rule and are left out.  The entities are added at      *)
(* different milliseconds, so that their ids (Date.now()) differ: nextId   *)
(* stands for them.                                                        *)
(***************************************************************************)
ENTITY_LEVELS ==
  [ LEVEL_1 |-> [id |-> 1, min |-> 90, max |-> 100],
    LEVEL_2 |-> [id |-> 2, min |-> 75, max |-> 90],
    LEVEL_3 |-> [id |-> 3, min |-> 50, max |-> 75],
    LEVEL_4 |-> [id |-> 4, min |-> 20, max |-> 50],
    LEVEL_5 |-> [id |-> 5, min |-> 0,  max |-> 20] ]

\* the level of an EP score: both ends of Level 1, the lower end of the others
calculateLevel(ep) ==
  IF ep >= ENTITY_LEVELS.LEVEL_1.min /\ ep <= ENTITY_LEVELS.LEVEL_1.max
  THEN ENTITY_LEVELS.LEVEL_1.id
  ELSE IF ep >= ENTITY_LEVELS.LEVEL_2.min /\ ep < ENTITY_LEVELS.LEVEL_2.max
  THEN ENTITY_LEVELS.LEVEL_2.id
  ELSE IF ep >= ENTITY_LEVELS.LEVEL_3.min /\ ep < ENTITY_LEVELS.LEVEL_3.max
  THEN ENTITY_LEVELS.LEVEL_3.id
  ELSE IF ep >= ENTITY_LEVELS.LEVEL_4.min /\ ep < ENTITY_LEVELS.LEVEL_4.max
  THEN ENTITY_LEVELS.LEVEL_4.id
  ELSE ENTITY_LEVELS.LEVEL_5.id

\* the object addEntity builds: parseFloat(entity.ep) || 50, and its level
newEntity(id, rawEP) ==
  LET ep == IF rawEP = NaN \/ rawEP = 0 THEN 50 ELSE rawEP
  IN [id |-> id, ep |-> ep, level |-> calculateLevel(ep)]

\* the updater of addEntity
addEntity(es, id, rawEP) == Append(es, newEntity(id, rawEP))

\* updateEntityEP throws before it reaches setEntities
updateEntityEPThrows(ep, currentLevel) ==
  \/ ep = NaN \/ ep < 0 \/ ep > 100
  \/ /\ currentLevel = ENTITY_LEVELS.LEVEL_2.id
     /\ calculateLevel(ep) = ENTITY_LEVELS.LEVEL_1.id
     /\ ep > ENTITY_LEVELS.LEVEL_2.max
  \/ /\ currentLevel = ENTITY_LEVELS.LEVEL_1.id
     /\ ep < ENTITY_LEVELS.LEVEL_1.min
     /\ ep < 85

\* the updater of updateEntityEP, reached when nothing was thrown
updateEntityEP(es, entityId, ep, currentLevel) ==
  LET calculatedLevel ==
        IF /\ currentLevel = ENTITY_LEVELS.LEVEL_2.id
           /\ calculateLevel(ep) = ENTITY_LEVELS.LEVEL_1.id
        THEN ENTITY_LEVELS.LEVEL_2.id
        ELSE calculateLevel(ep)
  IN [k \in DOMAIN es |->
        IF es[k].id = entityId
        THEN [es[k] EXCEPT !.ep = ep, !.level = calculatedLevel]
        ELSE es[k]]

\* the updater of deleteEntity
deleteEntity(es, entityId) == SelectSeq(es, LAMBDA entity : entity.id # entityId)

\* the EP scores a caller hands over, after parseFloat: the ends of the
\* levels, scores around them, and what is no score
EPValues == {NaN, -1, 0, 19, 20, 50, 74, 75, 84, 85, 89, 90, 91, 100, 101}

\* prev is the entities array before the call
AddEntity ==
  /\ nextId <= MaxEntities
  /\ \E rawEP \in EPValues :
       /\ entities' = addEntity(entities, nextId, rawEP)
       /\ last' = Returned("addEntity", nextId, rawEP, <<newEntity(nextId, rawEP)>>)
  /\ nextId' = nextId + 1

\* the page hands over the level the entity has (DiamondSystem.jsx); a
\* is the entity id, b the new EP
UpdateEntityEP ==
  /\ \E k \in 1..Len(entities), newEP \in EPValues :
       LET entity == entities[k] IN
       IF updateEntityEPThrows(newEP, entity.level)
       THEN /\ entities' = entities
            /\ last' = [op |-> "updateEntityEP", a |-> entity.id, b |-> newEP,
                        ret |-> Undefined, threw |-> TRUE]
       ELSE /\ entities' = updateEntityEP(entities, entity.id, newEP, entity.level)
            /\ last' = Returned("updateEntityEP", entity.id, newEP, Undefined)
  /\ UNCHANGED nextId

DeleteEntity ==
  /\ \E entityId \in Issued :
       /\ entities' = deleteEntity(entities, entityId)
       /\ last' = Returned("deleteEntity", entityId, Null, Undefined)
  /\ UNCHANGED nextId

\* one call on the entities store; a call that threw was caught by the page,
\* which goes on
CallDiamond(mutator) ==
  /\ calls < MaxDiamondCalls
  /\ mutator
  /\ prev' = entities
  /\ calls' = calls + 1
  /\ UNCHANGED <<clock, tasks, queued, rendered, initializedRef, observations>>

NextDiamond ==
  \/ CallDiamond(AddEntity)
  \/ CallDiamond(UpdateEntityEP)
  \/ CallDiamond(DeleteEntity)

\* the calls of the Diamond System page on the entities store
SpecDiamond == Init /\ [][NextDiamond]_vars

(***************************************************************************)
(* React's queue of state updates.  setTasks(updater) and setTasks(value)  *)
(* do not write tasks: they are queued, and the next render applies the    *)
(* queued calls in the order they were made, an updater to the result of   *)
(* the call before it, a value in place of that result.  queued holds      *)
(* every setTasks call made so far and rendered counts the calls a render  *)
(* has applied.  Every mutator queues an updater; the mount effect of the  *)
(* provider queues the example tasks as a value, once.  The example tasks  *)
(* (examples/exampleTasks.json) are not among the sources: they are any    *)
(* array of FormattedTasks.                                                *)
(***************************************************************************)
\* what one queued setTasks call makes of the array it is applied to
applyUpdate(ts, u) ==
  CASE u.op = "addTask" -> addTask(ts, u.task, u.id)
    [] u.op = "toggleTaskCompletion" -> toggleTaskCompletion(ts, u.taskId, u.now)
    [] u.op = "catastrophicWipeOut" -> catastrophicWipeOut(ts)
    [] u.op = "setTasks" -> u.value

\* a render: the queued calls applied in order to the state
RECURSIVE processQueue(_, _)
processQueue(ts, us) ==
  IF us = <<>> THEN ts ELSE processQueue(applyUpdate(ts, Head(us)), Tail(us))

\* the arrays the mount effect makes of the example tasks
FormattedTasks ==
  { <<>>,
    << [ id |-> 100, title |-> "A", rt |-> 2, idl |-> 15, il |-> 2,
         parentTaskId |-> Null, subtasks |-> <<>>, linksTo |-> <<>>,
         linkedFrom |-> <<>>, completed |-> FALSE, completedAt |-> Null ] >> }

\* the effect of PlanningProvider, run once after the first render, the
\* effects of the components below the provider having run before it
MountEffect ==
  /\ ~initializedRef
  /\ \E formattedTasks \in FormattedTasks :
       queued' = Append(queued, [op |-> "setTasks", value |-> formattedTasks])
  /\ initializedRef' = TRUE
  /\ last' = Returned("mountEffect", Null, Null, Undefined)
  /\ UNCHANGED <<tasks, nextId, prev>>

\* addTask called between two renders: the task is built and returned, the
\* updater is queued
QueueAddTask ==
  /\ nextId <= MaxTasks
  /\ \E title \in CoreTitles, rt \in CoreRT, idl \in CoreIDL, il \in CoreIL :
       LET task == [title |-> title, rt |-> rt, idl |-> idl, il |-> il,
                    parentTaskId |-> Null]
       IN /\ queued' = Append(queued, [op |-> "addTask", task |-> task, id |-> nextId])
          /\ last' = Returned("addTask", nextId, Null, <<newTaskOf(task, nextId)>>)
  /\ nextId' = nextId + 1
  /\ UNCHANGED <<tasks, prev, initializedRef>>

QueueToggleTaskCompletion ==
  /\ \E taskId \in Issued \cup {100}, now \in Dates :
       /\ queued' = Append(queued, [op |-> "toggleTaskCompletion",
                                    taskId |-> taskId, now |-> now])
       /\ last' = Returned("toggleTaskCompletion", taskId, now, Undefined)
  /\ UNCHANGED <<tasks, nextId, prev, initializedRef>>

QueueCatastrophicWipeOut ==
  /\ queued' = Append(queued, [op |-> "catastrophicWipeOut"])
  /\ last' = Returned("catastrophicWipeOut", Null, Null, Undefined)
  /\ UNCHANGED <<tasks, nextId, prev, initializedRef>>

\* a call of setTasks, by a mutator or by the mount effect
Queue(call) ==
  /\ Len(queued) < MaxQueued
  /\ call
  /\ UNCHANGED <<rendered, calls, clock, observations, entities>>

\* the provider renders again: the calls queued since the last render are
\* applied; prev is the state before the render
Render ==
  /\ rendered < Len(queued)
  /\ tasks' = processQueue(tasks, SubSeq(queued, rendered + 1, Len(queued)))
  /\ rendered' = Len(queued)
  /\ prev' = tasks
  /\ last' = Returned("render", Null, Null, Undefined)
  /\ UNCHANGED <<nextId, queued, initializedRef, calls, clock, observations, entities>>

NextQueue ==
  \/ Queue(MountEffect)
  \/ Queue(QueueAddTask)
  \/ Queue(QueueToggleTaskCompletion)
  \/ Queue(QueueCatastrophicWipeOut)
  \/ Render

\* mutators and the mount effect queueing their calls, and the renders that
\* apply them
SpecQueue == Init /\ [][NextQueue]_vars

(***************************************************************************)
(* Vocabulary of the properties.                                           *)
(***************************************************************************)
\* the positions of the store
Pos(ts) == 1..Len(ts)

\* the ids held in any of the three reference arrays of a task
refsOf(t) == elems(t.subtasks) \cup elems(t.linksTo) \cup elems(t.linkedFrom)

\* the ids of the ancestors of the tasks with an id in S: the parents, their
\* parents, and so on upwards
RECURSIVE ancestorsOf(_, _)
ancestorsOf(S, ts) ==
  LET parents == {ts[i].parentTaskId : i \in {j \in Pos(ts) : ts[j].id \in S}} \ {Null}
      more == S \cup parents
  IN IF more = S THEN S ELSE ancestorsOf(more, ts)

\* id d is a transitive descendant of id t: t is the parent of d, or of an
\* ancestor of d
isDescendant(d, t, ts) ==
  \E i \in Pos(ts) :
    /\ ts[i].id \in ancestorsOf({d}, ts)
    /\ ts[i].parentTaskId = t

\* the ids of the subtree of t: t and its transitive descendants
subtreeOf(t, ts) == {t} \cup {d \in idsOf(ts) : isDescendant(d, t, ts)}

\* the last call was op, and it returned
Did(op) == last.op = op /\ ~last.threw

\* B.id in A.linksTo iff A.id in B.linkedFrom, for all stored A and B
linksConsistent(ts) ==
  \A i, j \in Pos(ts) :
    includes(ts[i].linksTo, ts[j].id) <=> includes(ts[j].linkedFrom, ts[i].id)

\* B.subtasks holds exactly the ids of the stored tasks whose parent is B
hierarchyConsistent(ts) ==
  \A i \in Pos(ts) :
    elems(ts[i].subtasks) = {ts[j].id : j \in {k \in Pos(ts) : ts[k].parentTaskId = ts[i].id}}

(***************************************************************************)
(* C1.  After any sequence of mutations, for all stored tasks A and B:     *)
(* B.id is in A.linksTo if and only if A.id is in B.linkedFrom.            *)
(* updateTask replaces linksTo by whatever its argument carries and leaves *)
(* the other side as it was.                                               *)
(***************************************************************************)
C1_LinksBidirectional == linksConsistent(tasks)

(***************************************************************************)
(* C2.  After any sequence of mutations, the subtasks array of every       *)
(* stored task B is exactly the set of ids of the stored tasks whose       *)
(* parentTaskId is B.id.  catastrophicWipeOut removes a child and leaves   *)
(* its id in the surviving parent's subtasks.                              *)
(***************************************************************************)
C2_SubtasksAreTheChildren == hierarchyConsistent(tasks)

(***************************************************************************)
(* C3.  deleteTask(T) on a store containing T removes T and every          *)
(* transitive descendant of T, and removes no task outside T's subtree:    *)
(* the tasks left are, in order, the tasks whose id is outside the         *)
(* subtree.                                                                *)
(***************************************************************************)
C3_DeleteRemovesExactlyTheSubtree ==
  (Did("deleteTask") /\ last.a \in idsOf(prev)) =>
    LET gone == subtreeOf(last.a, prev)
        kept == SelectSeq(prev, LAMBDA t : t.id \notin gone)
    IN /\ idsOf(tasks) = idsOf(prev) \ gone
       /\ Len(tasks) = Len(kept)
       /\ \A i \in Pos(tasks) : tasks[i].id = kept[i].id

\* a delete of a task with a child and a grandchild
C3_Witness ==
  /\ Did("deleteTask")
  /\ Len(prev) = 3
  /\ Len(tasks) = 0
  /\ \E i, j \in Pos(prev) :
       /\ prev[i].parentTaskId = last.a
       /\ prev[j].parentTaskId = prev[i].id
       /\ prev[i].id # last.a
       /\ prev[j].id \notin {last.a, prev[i].id}

(***************************************************************************)
(* C4.  After deleteTask(T), T's id appears in no surviving task's         *)
(* subtasks, linksTo or linkedFrom, the parent of T included.  The parent  *)
(* of T only has T taken out of subtasks: a link between T and its parent  *)
(* stays in the parent.                                                    *)
(***************************************************************************)
C4_DeletedIdLeavesNoReference ==
  (Did("deleteTask") /\ last.a \in idsOf(prev)) =>
    \A i \in Pos(tasks) : last.a \notin refsOf(tasks[i])

(***************************************************************************)
(* C5.  After deleteTask(T) where T has descendants, no surviving task's   *)
(* linksTo or linkedFrom contains the id of a cascade-deleted descendant   *)
(* of T.  deleteSubtasks only filters the descendants out of the array.    *)
(***************************************************************************)
C5_DeletedDescendantsLeaveNoLink ==
  (Did("deleteTask") /\ last.a \in idsOf(prev)) =>
    \A i \in Pos(tasks) :
      \A d \in subtreeOf(last.a, prev) \ {last.a} :
        d \notin elems(tasks[i].linksTo) \cup elems(tasks[i].linkedFrom)

(***************************************************************************)
(* C6.  After catastrophicWipeOut() the store holds exactly the tasks      *)
(* whose il was 1 before the call, at any depth, each survivor unchanged   *)
(* in title, rt, idl, il and completion state.                             *)
(***************************************************************************)
sameData(t, u) ==
  /\ t.id = u.id
  /\ t.title = u.title
  /\ t.rt = u.rt
  /\ t.idl = u.idl
  /\ t.il = u.il
  /\ t.completed = u.completed
  /\ t.completedAt = u.completedAt

C6_WipeKeepsExactlyMust ==
  Did("catastrophicWipeOut") =>
    LET must == {i \in Pos(prev) : prev[i].il = MUST}
    IN /\ Len(tasks) = Cardinality(must)
       /\ \A i \in must : \E j \in Pos(tasks) : sameData(tasks[j], prev[i])
       /\ \A j \in Pos(tasks) :
            \E i \in must : sameData(tasks[j], prev[i])

\* a wipe of a chain Must - not Must - Must: the middle task goes though its
\* parent is Must, the last one stays though its parent goes
C6_Witness ==
  /\ Did("catastrophicWipeOut")
  /\ Len(prev) = 3
  /\ Len(tasks) = 2
  /\ \E i, j, k \in Pos(prev) :
       /\ prev[i].il = MUST /\ prev[j].il # MUST /\ prev[k].il = MUST
       /\ prev[j].parentTaskId = prev[i].id
       /\ prev[k].parentTaskId = prev[j].id
       /\ prev[i].id # prev[j].id /\ prev[j].id # prev[k].id /\ prev[i].id # prev[k].id
       /\ idsOf(tasks) = {prev[i].id, prev[k].id}

(***************************************************************************)
(* C7.  After catastrophicWipeOut() no surviving task's subtasks, linksTo  *)
(* or linkedFrom contains the id of a task the wipe removed.  The wipe is  *)
(* a bare filter: the survivors keep every reference they had.             *)
(***************************************************************************)
C7_WipeLeavesNoReference ==
  Did("catastrophicWipeOut") =>
    \A i \in Pos(tasks) :
      refsOf(tasks[i]) \cap (idsOf(prev) \ idsOf(tasks)) = {}

Toggled == Did("toggleTaskCompletion") /\ last.a \in idsOf(prev)

\* the stored task the toggle read: the first with the id
toggledTask == getTaskById(prev, last.a)

C9_CompletionCascades ==
  (Toggled /\ ~toggledTask.completed) =>
    /\ Len(tasks) = Len(prev)
    /\ \A i \in Pos(prev) :
         IF prev[i].id \in subtreeOf(last.a, prev)
         THEN tasks[i] = [prev[i] EXCEPT !.completed = TRUE, !.completedAt = last.b]
         ELSE tasks[i] = prev[i]

\* the toggle of an incomplete task with a child and a grandchild
C9_Witness ==
  /\ Toggled
  /\ ~toggledTask.completed
  /\ Len(prev) = 3
  /\ \A i \in Pos(tasks) : tasks[i].completed /\ tasks[i].completedAt = last.b
  /\ \E i, j \in Pos(prev) :
       /\ prev[i].parentTaskId = last.a
       /\ prev[j].parentTaskId = prev[i].id
       /\ prev[i].id # last.a
       /\ prev[j].id \notin {last.a, prev[i].id}
       /\ ~prev[i].completed
       /\ ~prev[j].completed

(***************************************************************************)
(* C10.  toggleTaskCompletion(T) on a completed task T sets only T to      *)
(* incomplete, with completedAt cleared; every other task, the descendants *)
(* of T included, is left as it was.                                       *)
(***************************************************************************)
C10_UncompletionDoesNotCascade ==
  (Toggled /\ toggledTask.completed) =>
    /\ Len(tasks) = Len(prev)
    /\ \A i \in Pos(prev) :
         IF prev[i].id = last.a
         THEN tasks[i] = [prev[i] EXCEPT !.completed = FALSE, !.completedAt = Null]
         ELSE tasks[i] = prev[i]

\* the toggle of a completed task whose child stays completed
C10_Witness ==
  /\ Toggled
  /\ toggledTask.completed
  /\ \E i, j \in Pos(tasks) :
       /\ tasks[i].id = last.a
       /\ ~tasks[i].completed
       /\ tasks[j].parentTaskId = last.a
       /\ tasks[j].id # last.a
       /\ tasks[j].completed
       /\ tasks[j].completedAt # Null

(***************************************************************************)
(* C11.  linkTask(X, X) leaves the store unchanged, and in every reachable *)
(* state no task's linksTo or linkedFrom contains the task's own id.       *)
(* linkTask returns before setTasks when the two ids are equal; updateTask *)
(* writes whatever linksTo or linkedFrom its argument carries, the task's  *)
(* own id included.                                                        *)
(***************************************************************************)
C11_NoSelfLink ==
  /\ (Did("linkTask") /\ last.a = last.b) => tasks = prev
  /\ \A i \in Pos(tasks) :
       tasks[i].id \notin elems(tasks[i].linksTo) \cup elems(tasks[i].linkedFrom)

(***************************************************************************)
(* C12.  linkTask(from, to) or unlinkTask(from, to) in which one endpoint  *)
(* id is absent from the store leaves the store unchanged, so no link is   *)
(* ever recorded on one side only.  Each side of the map in linkTask and   *)
(* unlinkTask acts on its own: the stored endpoint is written whether or   *)
(* not the other one exists.                                               *)
(***************************************************************************)
\* the last call was a link or an unlink with an endpoint that is not stored
absentEndpoint ==
  /\ Did("linkTask") \/ Did("unlinkTask")
  /\ last.a \notin idsOf(prev) \/ last.b \notin idsOf(prev)

C12_AbsentEndpointLeavesStore == absentEndpoint => tasks = prev

(***************************************************************************)
(* C13.  Invalid mutator calls are signalled to the caller instead of      *)
(* being silently ignored: toggleTaskCompletion, linkTask and unlinkTask   *)
(* with an id absent from the store yield NotFound, linkTask(X, X) yields  *)
(* InvalidOperation, and addTask / updateTask with an il outside 1-4 or an *)
(* rt that is not a non-negative number yield ValidationError.  No mutator *)
(* throws or returns an error: each returns undefined, addTask the task it *)
(* built.                                                                  *)
(***************************************************************************)
\* an importance level of the scale
ilInRange(il) == il \in 1..4

\* a required time that is a number and not negative
rtNonNegative(rt) == rt # NaN /\ rt >= 0

\* the last call was addTask or updateTask carrying an il outside the scale
\* or an rt that is no non-negative number
invalidData ==
  \/ /\ last.op = "addTask"
     /\ ~(ilInRange(parseInt(last.b.il)) /\ rtNonNegative(parseFloat(last.b.rt)))
  \/ /\ last.op = "updateTask"
     /\ \/ "il" \in DOMAIN last.b /\ ~ilInRange(parseInt(last.b.il))
        \/ "rt" \in DOMAIN last.b /\ ~rtNonNegative(parseFloat(last.b.rt))

\* the last call named an id that is not stored
notFound ==
  \/ last.op = "toggleTaskCompletion" /\ last.a \notin idsOf(prev)
  \/ /\ last.op \in {"linkTask", "unlinkTask"}
     /\ last.a \notin idsOf(prev) \/ last.b \notin idsOf(prev)

\* the last call was linkTask(X, X)
selfLink == last.op = "linkTask" /\ last.a = last.b

\* the caller was handed an error: the call threw, or returned an error
\* object
signalled ==
  \/ last.threw
  \/ last.ret # Undefined /\ "error" \in DOMAIN last.ret[1]

C13_InvalidCallsAreSignalled == (notFound \/ selfLink \/ invalidData) => signalled

(***************************************************************************)
(* C17.  In every reachable state every stored task has il in {1,2,3,4}    *)
(* and a non-negative numeric rt: addTask or updateTask given an il        *)
(* outside 1-4 or an rt that is negative or not a number is rejected and   *)
(* leaves the store unchanged.  addTask and updateTask store parseInt(il)  *)
(* and parseFloat(rt) whatever they are.                                   *)
(***************************************************************************)
C17_StoredDataIsValid ==
  /\ \A i \in Pos(tasks) : ilInRange(tasks[i].il) /\ rtNonNegative(tasks[i].rt)
  /\ invalidData => tasks = prev

(***************************************************************************)
(* C14.  linkTask(A, B) is idempotent: calling it when A already links to  *)
(* B (B.id is in A.linksTo) leaves the store unchanged, so after any       *)
(* sequence of operations no linksTo or linkedFrom list contains the same  *)
(* id twice.  linkTask tests each side on its own: when A.linksTo holds    *)
(* B.id and B.linkedFrom does not hold A.id, the call writes B.            *)
(***************************************************************************)
\* no value occurs at two positions of the array
noDuplicates(arr) == \A i, j \in 1..Len(arr) : arr[i] = arr[j] => i = j

\* the last call was linkTask(A, B) with B.id already in A.linksTo
alreadyLinked ==
  /\ Did("linkTask")
  /\ last.a \in idsOf(prev)
  /\ \A i \in Pos(prev) : prev[i].id = last.a => includes(prev[i].linksTo, last.b)

C14_LinkIsIdempotent ==
  /\ alreadyLinked => tasks = prev
  /\ \A i \in Pos(tasks) :
       noDuplicates(tasks[i].linksTo) /\ noDuplicates(tasks[i].linkedFrom)

(***************************************************************************)
(* C15.  unlinkTask(A, B) on stored A and B removes B from A.linksTo and A *)
(* from B.linkedFrom together and changes nothing else: a reverse link     *)
(* from B to A and every other link are kept, and the call is a no-op when *)
(* A does not link to B (B.id is not in A.linksTo).  unlinkTask filters    *)
(* each side on its own, and a task that is both A and B only has its      *)
(* linksTo filtered.                                                       *)
(***************************************************************************)
\* the last call was unlinkTask(A, B) with A and B stored
unlinked ==
  /\ Did("unlinkTask")
  /\ last.a \in idsOf(prev)
  /\ last.b \in idsOf(prev)

C15_UnlinkRemovesBothSidesOnly ==
  unlinked =>
    /\ Len(tasks) = Len(prev)
    /\ \A i \in Pos(prev) :
         tasks[i] =
           [prev[i] EXCEPT
              !.linksTo = IF prev[i].id = last.a THEN without(@, last.b) ELSE @,
              !.linkedFrom = IF prev[i].id = last.b THEN without(@, last.a) ELSE @]
    /\ (\A i \in Pos(prev) : prev[i].id = last.a => ~includes(prev[i].linksTo, last.b))
         => tasks = prev

(***************************************************************************)
(* C16.  updateTask(id, updates), toggleTaskCompletion(id) and             *)
(* deleteTask(id) called with an id that is not in the store leave the     *)
(* store unchanged; in particular deleteTask(T) applied twice gives the    *)
(* same store as applied once: after deleteTask(T) no task with id T is    *)
(* stored, and a further deleteTask(T) returns the store it was given.     *)
(***************************************************************************)
\* the last call was op with an id that is not stored
absentId(op) == Did(op) /\ last.a \notin idsOf(prev)

C16_AbsentIdLeavesStore ==
  /\ (absentId("updateTask") \/ absentId("toggleTaskCompletion") \/ absentId("deleteTask"))
       => tasks = prev
  /\ Did("deleteTask") =>
       /\ last.a \notin idsOf(tasks)
       /\ deleteTask(tasks, last.a) = tasks

\* a delete of an id that is no longer stored, on a store where a task still
\* holds that id in one of its arrays
C16_Witness ==
  /\ absentId("deleteTask")
  /\ tasks = prev
  /\ \E i \in Pos(prev) : last.a \in refsOf(prev[i])

(***************************************************************************)
(* C18.  addTask(task) grows the store by exactly one task whose id        *)
(* differs from every id already stored, created incomplete with empty     *)
(* subtasks, linksTo and linkedFrom; when task.parentTaskId names a stored *)
(* task P, P.subtasks gains the new id in the same update; no other field  *)
(* of any existing task changes.  The id is Date.now() + Math.random():    *)
(* two calls in one millisecond can draw the same value.                   *)
(***************************************************************************)
C18_AddTaskGrowsByOne ==
  Did("addTask") =>
    LET newTask == last.ret[1] IN
    /\ Len(tasks) = Len(prev) + 1
    /\ newTask.id \notin idsOf(prev)
    /\ tasks[Len(tasks)].id = newTask.id
    /\ ~tasks[Len(tasks)].completed
    /\ tasks[Len(tasks)].completedAt = Null
    /\ tasks[Len(tasks)].subtasks = <<>>
    /\ tasks[Len(tasks)].linksTo = <<>>
    /\ tasks[Len(tasks)].linkedFrom = <<>>
    /\ \A i \in Pos(prev) :
         tasks[i] = IF prev[i].id = newTask.parentTaskId
                    THEN [prev[i] EXCEPT !.subtasks = Append(@, newTask.id)]
                    ELSE prev[i]

(***************************************************************************)
(* C19.  getRPStatus(rp) is Safe exactly when rp < 0.8, Risky exactly when *)
(* 0.8 <= rp < 1.0, and Overload exactly when rp >= 1.0; so rp = 0.8 is    *)
(* Risky, not Safe, and rp = 1.0 is Overload, not Risky.                   *)
(***************************************************************************)
C19_ZonesOfTheRealismPoint ==
  Did("getRPStatus") =>
    LET rp == last.a
        zone == last.ret[1].status
    IN /\ zone = "Safe" <=> 5 * rp.num < 4 * rp.den
       /\ zone = "Risky" <=> (5 * rp.num >= 4 * rp.den /\ rp.num < rp.den)
       /\ zone = "Overload" <=> rp.num >= rp.den

\* a realism point of exactly 0.8, not written as 4/5, found Risky
C19_Witness ==
  /\ Did("getRPStatus")
  /\ 5 * last.a.num = 4 * last.a.den
  /\ last.a.den # 5
  /\ last.ret[1].status = "Risky"

(***************************************************************************)
(* C20.  calculateRealismPoint(tasks, h) equals the sum of the tasks' rt   *)
(* (an rt that is missing or no number counted as 0) divided by h when     *)
(* h > 0, and equals 0 when h <= 0 or the array is empty; for example rts  *)
(* 6 and 2 with h = 8 give total 8, RP 1.0 and zone Overload.              *)
(***************************************************************************)
\* the rt a task counts for
rtCounted(task) == IF "rt" \in DOMAIN task /\ task.rt # NaN THEN task.rt ELSE 0

\* the sum of the rt of the tasks from position i on
RECURSIVE rtSumFrom(_, _)
rtSumFrom(ts, i) ==
  IF i > Len(ts) THEN 0 ELSE rtCounted(ts[i]) + rtSumFrom(ts, i + 1)

C20_RealismPointIsTotalOverHours ==
  /\ Did("calculateRealismPoint") =>
       LET h == last.a
           rp == last.ret[1]
       IN /\ (h # NaN /\ h > 0) => rp.num * h = rtSumFrom(tasks, 1) * rp.den
          /\ (h # NaN /\ h <= 0) => rp.num = 0
          /\ tasks = <<>> => rp.num = 0
  /\ (/\ Did("calculateRPStats")
      /\ last.a = 8
      /\ Len(tasks) = 2
      /\ rtCounted(tasks[1]) = 6
      /\ rtCounted(tasks[2]) = 2) =>
       /\ last.ret[1].totalRT = 8
       /\ last.ret[1].rp.num = last.ret[1].rp.den
       /\ last.ret[1].status = "Overload"

\* the example: tasks of 6 and 2 hours against 8 hours available
C20_Witness ==
  /\ Did("calculateRPStats")
  /\ last.a = 8
  /\ tasks = <<[title |-> "A", rt |-> 6], [title |-> "A", rt |-> 2]>>
  /\ last.ret[1].totalRT = 8
  /\ last.ret[1].rp = [num |-> 8, den |-> 8]
  /\ last.ret[1].status = "Overload"

(***************************************************************************)
(* C24.  In every reachable store the parent relation is acyclic: no task  *)
(* is its own ancestor, so the descendant traversals of                    *)
(* toggleTaskCompletion, deleteTask and getTaskTree end for every stored   *)
(* task after any sequence of mutations, updateTask included.  updateTask  *)
(* writes whatever parentTaskId its argument carries, the task's own id    *)
(* included; getDescendantIds then recurses until the call stack is full.  *)
(***************************************************************************)
\* some stored task is its own ancestor
ownAncestor(ts) == \E i \in Pos(ts) : isDescendant(ts[i].id, ts[i].id, ts)

C24_ParentRelationIsAcyclic == ~ownAncestor(tasks) /\ ~last.threw

(***************************************************************************)
(* C26.  updateTask(id, patch) changes only the target task's title, rt,   *)
(* idl and il: whatever fields the patch carries, no task's id,            *)
(* parentTaskId, subtasks, linksTo, linkedFrom, completed or completedAt   *)
(* changes, and every other task is left as it was.  updateTask spreads    *)
(* every field of its argument over the task.                              *)
(***************************************************************************)
\* the fields updateTask is documented to leave alone are equal in t and u
sameStructure(t, u) ==
  /\ t.id = u.id
  /\ t.parentTaskId = u.parentTaskId
  /\ t.subtasks = u.subtasks
  /\ t.linksTo = u.linksTo
  /\ t.linkedFrom = u.linkedFrom
  /\ t.completed = u.completed
  /\ t.completedAt = u.completedAt

C26_UpdateTaskKeepsStructure ==
  Did("updateTask") =>
    /\ Len(tasks) = Len(prev)
    /\ \A i \in Pos(prev) :
         /\ sameStructure(tasks[i], prev[i])
         /\ prev[i].id # last.a => tasks[i] = prev[i]
    /\ linksConsistent(prev) => linksConsistent(tasks)
    /\ hierarchyConsistent(prev) => hierarchyConsistent(tasks)

(***************************************************************************)
(* C27.  In every reachable state every stored task with a non-null        *)
(* parentTaskId has its parent in the store, so getTaskTree (getRootTasks  *)
(* followed by getSubtasks, recursively) reaches every stored task exactly *)
(* once: no task is an orphan, neither a root nor a child of a stored      *)
(* task.  catastrophicWipeOut filters by il alone and addTask stores the   *)
(* parentTaskId it is given, so a task can outlive or predate its parent.  *)
(***************************************************************************)
\* the ids of the nodes of the trees, in the order the trees list them
RECURSIVE idsInTrees(_)
idsInTrees(trees) ==
  IF trees = <<>> THEN <<>>
  ELSE <<Head(trees).id>> \o idsInTrees(Head(trees).children) \o idsInTrees(Tail(trees))

\* the stored tasks whose parent is not stored
orphans(ts) ==
  {ts[i].id : i \in {j \in Pos(ts) :
                       /\ ts[j].parentTaskId # Null
                       /\ ts[j].parentTaskId \notin idsOf(ts)}}

C27_NoOrphans ==
  /\ orphans(tasks) = {}
  /\ LET reached == idsInTrees(getTaskTree(tasks))
     IN /\ elems(reached) = idsOf(tasks)
        /\ Len(reached) = Len(tasks)

(***************************************************************************)
(* C28.  As stated: in every reachable state, every descendant of a        *)
(* completed task is itself completed.                                     *)
(***************************************************************************)
C28_DescendantsOfCompletedAreCompleted ==
  \A i, j \in Pos(tasks) :
    (tasks[i].completed /\ isDescendant(tasks[j].id, tasks[i].id, tasks))
      => tasks[j].completed

(***************************************************************************)
(* C28, amended.  Right after toggleTaskCompletion(T) has completed an     *)
(* incomplete task T, every descendant of T is completed.  Later calls may *)
(* leave an incomplete task below a completed one: toggling a descendant   *)
(* back changes that descendant alone, and addTask stores a new subtask    *)
(* as incomplete whatever the state of its parent.                         *)
(***************************************************************************)
C28_DescendantsCompletedAfterCompleting ==
  (Toggled /\ ~toggledTask.completed) =>
    \A j \in Pos(tasks) :
      isDescendant(tasks[j].id, last.a, tasks) => tasks[j].completed

\* the completing toggle of a task with a subtask that was incomplete
C28_Witness ==
  /\ Toggled
  /\ ~toggledTask.completed
  /\ \E j \in Pos(tasks) :
       /\ tasks[j].parentTaskId = last.a
       /\ tasks[j].id # last.a
       /\ ~prev[j].completed
       /\ tasks[j].completed

(***************************************************************************)
(* C30.  In every state reached by addTask, toggleTaskCompletion,          *)
(* deleteTask, linkTask, unlinkTask and catastrophicWipeOut, a task has    *)
(* completed = TRUE if and only if its completedAt is not null.            *)
(***************************************************************************)
C30_CompletedIffCompletedAt ==
  \A i \in Pos(tasks) : tasks[i].completed <=> tasks[i].completedAt # Null

\* a task toggled back to incomplete, its date cleared, next to a task that
\* is completed and dated
C30_Witness ==
  /\ Toggled
  /\ toggledTask.completed
  /\ toggledTask.completedAt # Null
  /\ \E i, j \in Pos(tasks) :
       /\ tasks[i].id = last.a
       /\ ~tasks[i].completed
       /\ tasks[i].completedAt = Null
       /\ tasks[j].completed
       /\ tasks[j].completedAt # Null

(***************************************************************************)
(* C29.  Whenever the total required time of the given tasks is positive   *)
(* and at least the available hours, the status calculateRPStats reports   *)
(* is Overload: a plan that does not fit is never reported as Safe or      *)
(* Risky, available hours of 0 or below included.  calculateRealismPoint   *)
(* returns 0 when the available time is 0 or negative, and getRPStatus     *)
(* labels 0 as Safe.                                                       *)
(***************************************************************************)
\* the last call was calculateRPStats on tasks that do not fit in the hours
planDoesNotFit ==
  /\ Did("calculateRPStats")
  /\ last.a # NaN
  /\ rtSumFrom(tasks, 1) > 0
  /\ rtSumFrom(tasks, 1) >= last.a

C29_UnfitPlanIsOverload == planDoesNotFit => last.ret[1].status = "Overload"

\* the same with the available hours positive
C29_UnfitPlanInPositiveHours ==
  (planDoesNotFit /\ last.a > 0) => last.ret[1].status = "Overload"

(***************************************************************************)
(* C21.  sortTasksByPriority(tasks) returns a new array that is a          *)
(* permutation of the input, ordered by il ascending and, among tasks of   *)
(* equal il, by idl ascending (a missing idl compares as the epoch); tasks *)
(* equal on both keys keep their input order, and the input is left        *)
(* unchanged.  The order is required of the tasks whose keys are numbers   *)
(* and dates; a task with an il of NaN or an Invalid Date has no place of  *)
(* its own in it.  The comparator returns NaN against an Invalid Date,     *)
(* which sort takes as "equal", so the tasks around one are left unsorted. *)
(***************************************************************************)
\* the task has an il that is a number and an idl that is a date or missing
comparable(t) == t.il # NaN /\ t.idl # InvalidDate

\* b may follow a in the priority order; the id is the input position
inPriorityOrder(a, b) ==
  \/ a.il < b.il
  \/ /\ a.il = b.il
     /\ \/ dateOrEpoch(a.idl) < dateOrEpoch(b.idl)
        \/ dateOrEpoch(a.idl) = dateOrEpoch(b.idl) /\ a.id < b.id

C21_SortedByPriority ==
  Did("sortTasksByPriority") =>
    LET sorted == last.ret[1] IN
    /\ Len(sorted) = Len(tasks)
    /\ \A k \in Pos(tasks) : \E i \in Pos(sorted) : sorted[i] = tasks[k]
    /\ \A i, j \in Pos(sorted) :
         (i < j /\ comparable(sorted[i]) /\ comparable(sorted[j]))
           => inPriorityOrder(sorted[i], sorted[j])
    /\ tasks = prev

\* the same for arrays in which every il is a number and no idl is invalid
C21_SortedWhenComparable ==
  (\A k \in Pos(tasks) : comparable(tasks[k])) => C21_SortedByPriority

(***************************************************************************)
(* C23.  An observation's status changes from 'buffer' to 'analyzed',      *)
(* through analyzeObservation or convertToTask, only when at least         *)
(* OBSERVATION_BUFFER_DAYS (2) days have passed since its createdAt: an    *)
(* observation inside its buffer period is never analyzed or converted.    *)
(* Neither function calls isReadyForAnalysis or reads createdAt.           *)
(***************************************************************************)
C23_AnalyzedOnlyAfterTheBuffer ==
  (Did("analyzeObservation") \/ Did("convertToTask")) =>
    \A i \in Pos(prev) :
      (prev[i].status = "buffer" /\ observations[i].status = "analyzed")
        => isReadyForAnalysis(prev[i], last.b)

\* analyzeObservation and convertToTask on an observation that has waited
C23_AnalyzedWhenReady ==
  (/\ Did("analyzeObservation") \/ Did("convertToTask")
   /\ \A i \in Pos(prev) : isReadyForAnalysis(prev[i], last.b)) =>
    \A i \in Pos(prev) :
      prev[i].id = last.a => observations[i].status = "analyzed"

(***************************************************************************)
(* C25.  updateEntityEP on an entity whose current level is 2 never        *)
(* results in level 1: a new EP in Level 1's range (90 to 100) is rejected *)
(* with an error and leaves the entity unchanged, so a Level 2 entity's EP *)
(* never exceeds 89.  The rejection tests ep > LEVEL_2.max, which is 90:   *)
(* an EP of exactly 90 passes it and is stored on the Level 2 entity.      *)
(***************************************************************************)
\* the last call was updateEntityEP, thrown or not, on a stored entity that
\* was at level 2
onLevel2Entity ==
  /\ last.op = "updateEntityEP"
  /\ \E k \in Pos(prev) : prev[k].id = last.a /\ prev[k].level = 2

C25_Level2NeverRises ==
  /\ onLevel2Entity =>
       /\ \A k \in Pos(entities) : entities[k].id = last.a => entities[k].level # 1
       /\ (last.b # NaN /\ last.b >= 90 /\ last.b <= 100) =>
            last.threw /\ entities = prev
  /\ \A k \in Pos(entities) : entities[k].level = 2 => entities[k].ep <= 89

\* the same with the EP of exactly 90 left out
C25_Level2NeverRisesButFor90 ==
  /\ (onLevel2Entity /\ last.b # 90) =>
       /\ \A k \in Pos(entities) : entities[k].id = last.a => entities[k].level # 1
       /\ (last.b # NaN /\ last.b >= 90 /\ last.b <= 100) =>
            last.threw /\ entities = prev
  /\ \A k \in Pos(entities) :
       (entities[k].level = 2 /\ entities[k].ep # 90) => entities[k].ep <= 89

(***************************************************************************)
(* C22.  Mutations are serialized: every mutator applies its whole         *)
(* read-modify-write as one step on the latest state, so when several are  *)
(* issued before the store is read again the result is that of applying    *)
(* them one after another in the order of issue, and no issued mutation is *)
(* lost or overwritten, the one-time loading of the example tasks          *)
(* included.  Once every queued call is applied: the store is the queue    *)
(* applied in order from the empty store, however the renders fell; and    *)
(* every task an addTask has added, no wipe having been issued after it,   *)
(* is stored.  The mount effect queues a value, not an updater: it         *)
(* replaces whatever the calls queued before it have made.                 *)
(***************************************************************************)
\* the positions in queued of the addTask calls that no wipe follows
addedForGood ==
  {k \in 1..Len(queued) :
     /\ queued[k].op = "addTask"
     /\ \A j \in (k + 1)..Len(queued) : queued[j].op # "catastrophicWipeOut"}

C22_MutationsAreSerialized ==
  rendered = Len(queued) =>
    /\ tasks = processQueue(<<>>, queued)
    /\ \A k \in addedForGood : queued[k].id \in idsOf(tasks)

\* the same when the mount effect ran before any mutator was called
C22_SerializedAfterMount ==
  (\A k \in 2..Len(queued) : queued[k].op # "setTasks")
    => C22_MutationsAreSerialized

====
